---- MODULE Spec2Model ----
(***************************************************************************)
(* Lead capture, usage accounting, billing events and webhook dispatch of  *)
(* the lead-qualification service.  The repository holds two entrypoints   *)
(* over the same SQLite file leads.db: the monolith app.py and the modular *)
(* main.py (routers/ + services/).  A process runs one of them; the choice *)
(* and the environment variables are fixed in env at start-up.             *)
(***************************************************************************)
EXTENDS Integers, FiniteSets, Sequences, TLC

VARIABLES
    env,        \* entrypoint and environment configuration of the process
    customers,  \* table customers, keyed by id
    leads,      \* table leads (set of rows)
    rq,         \* the POST /api/leads requests: position and locals of each
    counted,    \* history: per account, the requests whose increment was
                \* applied since the counter was last set to 0
    zapier_webhooks,  \* table zapier_webhooks, rows in insertion order
    session,    \* zapier_service.session of the aiohttp dispatcher (singleton)
    job,        \* the webhook deliveries: position and locals of each
    scoring,    \* one pass of the scoring engine: position and locals
    now,        \* time.time() as RateLimitMiddleware reads it
    requests,   \* RateLimitMiddleware.requests: the recorded times of each IP
    forwarded,  \* the times at which call_next ran, for each IP (history)
    rate_response, \* what the last request through the middleware got
    customer_rows, \* table customers as the checkout flow writes it, by email
    checkout,   \* the checkout successes handled so far and the last one's result
    listing,    \* the last answer of GET /api/leads or GET /webhooks/zapier
    corporate_members,  \* table corporate_members of one corporate account
    invite      \* the add_team_member calls: position and locals of each

vars == <<env, customers, leads, rq, counted, zapier_webhooks, session, job,
          scoring, now, requests, forwarded, rate_response, customer_rows,
          checkout, listing, corporate_members, invite>>
limitVars == <<now, requests, forwarded, rate_response>>
signupVars == <<customer_rows, checkout>>
listVars == <<listing>>
corpVars == <<corporate_members, invite>>
auxVars == <<limitVars, signupVars, listVars, corpVars>>
acctVars == <<customers, leads, rq, counted>>
dispVars == <<zapier_webhooks, session, job>>
coreVars == <<env, acctVars, dispVars, scoring>>

----------------------------------------------------------------------------
(* Bounds *)

MaxReq == 2          \* number of create_lead requests
StarterLimit == 1    \* leads_limit of the starter plan, scaled down from 500
ProLimit == 2        \* leads_limit of the professional plan, scaled down from 2000

MaxJobs == 2         \* number of webhook deliveries (dispatches and tests)
MaxHooks == 2        \* number of rows of zapier_webhooks

Req == 1..MaxReq
Job == 1..MaxJobs
Acct == {"A", "B"}
NoId == "none"
NULL == "NULL"
SubIds == {"sub_A", "sub_B", "sub_X", NULL}
ApiKeys == {"key_A", "key_B", "key_bad"}
LeadEmails == {"lead@x"}
\* endpoints: one that answers 200, one that cannot be reached, one that
\* answers 200 or another status
Urls == {"u_ok", "u_down", "u_flaky"}
retry_count == 3
\* the scale of the interest score, and the numbers a model reply can hold
MaxScore == 100
Over == 1            \* how far a reply may lie outside 0..MaxScore
calls_per_minute == 2   \* RateLimitMiddleware(calls_per_minute), scaled down from 100
Window == 2          \* the window of the rate limit, scaled down from 60 seconds
MaxTime == 3         \* the clock runs from 0 to MaxTime
IPs == {"ip1", "ip2"}
NoListing == [kind |-> "none", customer_id |-> NoId, rows |-> {}]
max_users == 2       \* corporate_accounts.max_users of the account
MaxInvites == 3      \* number of add_team_member calls
Invite == 1..MaxInvites
\* corporate_members.active of a row inserted without the column
member_active_default == TRUE
\* the admin member that create_corporate_account inserts
admin_member == [id |-> 0, active |-> member_active_default]
IdleInvite == [pc |-> "idle", current_members |-> 0]
MaxCheckouts == 3    \* number of checkout successes handled
Emails == {"a@x", "b@x"}
Plans == {"starter", "professional"}
NoCheckout ==
    [n |-> 0, customer_email |-> "none", plan |-> "none", api_key |-> 0,
     result |-> "none"]
NoRateResponse == [client_ip |-> "none", status_code |-> 0]
Replies ==
    [numeric : {TRUE}, value : (0 - Over)..(MaxScore + Over)]
    \cup {[numeric |-> FALSE, value |-> 0]}
Stages == {"unqualified", "nurture", "qualified", "warm_lead", "hot_lead"}

----------------------------------------------------------------------------
(* Tables and pure helpers *)

\* SQL comparison column = ?: never true when either side is NULL
SqlEq(x, y) == x # NULL /\ y # NULL /\ x = y

\* the row that a checkout inserts for each plan (status 'active', counter 0)
NewCustomer(sub, key, limit) ==
    [status |-> "active", api_key |-> key, stripe_subscription_id |-> sub,
     leads_limit |-> limit, leads_used_this_month |-> 0]

\* local variable customer of a handler before authentication
NoCustomer ==
    [id |-> NoId, status |-> "none", leads_limit |-> 0, leads_used_this_month |-> 0]

\* SELECT * FROM customers WHERE api_key = ? AND status = 'active', fetch one
verify_api_key_unfiltered(cust, api_key) ==
    LET hit == {a \in Acct : SqlEq(cust[a].api_key, api_key)}
    IN  IF hit = {} THEN NoCustomer
        ELSE LET a == CHOOSE x \in hit : TRUE
             IN  [id |-> a, status |-> cust[a].status,
                  leads_limit |-> cust[a].leads_limit,
                  leads_used_this_month |-> cust[a].leads_used_this_month]

verify_api_key(cust, api_key) ==
    LET hit == {a \in Acct : SqlEq(cust[a].api_key, api_key)
                             /\ cust[a].status = "active"}
    IN  IF hit = {} THEN NoCustomer
        ELSE LET a == CHOOSE x \in hit : TRUE
             IN  [id |-> a, status |-> cust[a].status,
                  leads_limit |-> cust[a].leads_limit,
                  leads_used_this_month |-> cust[a].leads_used_this_month]

\* app.py: re-reads the row; False when the row is missing
check_usage_limit(cust, customer_id) ==
    /\ customer_id \in Acct
    /\ cust[customer_id].leads_used_this_month < cust[customer_id].leads_limit

\* routers/leads.py: the test on the dict returned by get_current_customer
limit_exceeded(customer) ==
    customer.leads_used_this_month >= customer.leads_limit

\* UPDATE customers SET leads_used_this_month = <snapshot> + 1 (read-modify-write)
update_customer_usage_rmw(cust, customer) ==
    [cust EXCEPT ![customer.id].leads_used_this_month =
                     customer.leads_used_this_month + 1]

\* UPDATE customers SET leads_used_this_month = leads_used_this_month + 1 WHERE id = ?
update_customer_usage(cust, customer) ==
    [cust EXCEPT ![customer.id].leads_used_this_month = @ + 1]

\* INSERT INTO leads (id, customer_id, email, ...): the statement names neither
\* qualification_score nor qualification_stage, which take the DEFAULT of the
\* schema
lead_row(r, customer, email) ==
    [id |-> r, customer_id |-> customer.id, email |-> email,
     qualification_score |-> 0, qualification_stage |-> "new"]

\* UPDATE customers SET leads_used_this_month = leads_used_this_month - 1 WHERE ...
reset_monthly_usage_decrement(cust, subscription_id) ==
    [a \in Acct |->
        IF SqlEq(cust[a].stripe_subscription_id, subscription_id)
        THEN [cust[a] EXCEPT !.leads_used_this_month = @ - 1]
        ELSE cust[a]]

\* UPDATE customers SET leads_used_this_month = 0 (no WHERE clause)
reset_monthly_usage_all(cust, subscription_id) ==
    [a \in Acct |-> [cust[a] EXCEPT !.leads_used_this_month = 0]]

\* UPDATE customers SET leads_used_this_month = 0, status = 'active' WHERE ...
reset_monthly_usage_reactivating(cust, subscription_id) ==
    [a \in Acct |->
        IF SqlEq(cust[a].stripe_subscription_id, subscription_id)
        THEN [cust[a] EXCEPT !.leads_used_this_month = 0, !.status = "active"]
        ELSE cust[a]]

\* UPDATE customers SET leads_used_this_month = 0 WHERE stripe_subscription_id = ?
reset_monthly_usage(cust, subscription_id) ==
    [a \in Acct |->
        IF SqlEq(cust[a].stripe_subscription_id, subscription_id)
        THEN [cust[a] EXCEPT !.leads_used_this_month = 0]
        ELSE cust[a]]

\* UPDATE customers SET status = ?, leads_used_this_month = 0 WHERE ...
set_status_and_reset(cust, subscription_id, status) ==
    [a \in Acct |->
        IF SqlEq(cust[a].stripe_subscription_id, subscription_id)
        THEN [cust[a] EXCEPT !.status = status, !.leads_used_this_month = 0]
        ELSE cust[a]]

\* UPDATE customers SET status = ? WHERE stripe_subscription_id = ?
set_status_by_subscription(cust, subscription_id, status) ==
    [a \in Acct |->
        IF SqlEq(cust[a].stripe_subscription_id, subscription_id)
        THEN [cust[a] EXCEPT !.status = status]
        ELSE cust[a]]

\* send_email without its try/except: a provider error leaves the function
send_email_raising(client, delivered) ==
    IF ~client THEN "False" ELSE IF delivered THEN "True" ELSE "raise"

\* send_email: False without a client; a provider error or exception is
\* caught and gives False
send_email(client, delivered) ==
    IF ~client THEN "False" ELSE IF delivered THEN "True" ELSE "False"

\* sync_lead_to_hubspot: False without HUBSPOT_API_KEY; a status other than
\* 200/201 or an exception gives False
sync_lead_to_hubspot(hubspot_key, synced) ==
    IF ~hubspot_key THEN "False" ELSE IF synced THEN "True" ELSE "False"

\* the rows an UPDATE ... WHERE stripe_subscription_id = ? touches
matched(cust, subscription_id) ==
    {a \in Acct : SqlEq(cust[a].stripe_subscription_id, subscription_id)}

----------------------------------------------------------------------------
(* Requests *)

NoResponse == [code |-> 0, used |-> 0, limit |-> 0]

IdleRequest ==
    [pc |-> "idle", api_key |-> NULL, customer |-> NoCustomer, first_name |-> FALSE,
     email |-> "lead@x", wrote |-> {}, effects |-> {}, failures |-> {},
     response |-> NoResponse]

\* one call of send_to_zapier: its target, the outcome of each attempt so
\* far, and its return value
NewCall(webhook_url) ==
    [webhook_url |-> webhook_url, log |-> <<>>, waits |-> <<>>, result |-> "none"]

IdleJob ==
    [pc |-> "idle", kind |-> "none", customer_id |-> NoId, started_with |-> 0,
     webhooks |-> <<>>, idx |-> 0, attempt |-> 0, calls |-> <<>>]

IdleScoring ==
    [pc |-> "idle", reply |-> [numeric |-> FALSE, value |-> 0], score |-> 0,
     ready_for_demo |-> FALSE, stage |-> "none"]

Terminal == {"rejected", "failed", "done"}
InFlight(r) == rq[r].pc \notin (Terminal \cup {"idle"})

Init ==
    /\ env \in {e \in [deploy : {"app", "routers"}, sendgrid : BOOLEAN,
                       hubspot : BOOLEAN, zapier : {"requests", "aiohttp"}] :
                   /\ e.deploy = "app" => e.zapier = "requests"
                   /\ e.deploy = "routers" => ~e.hubspot}
    /\ customers = [a \in Acct |->
                      IF a = "A" THEN NewCustomer("sub_A", "key_A", StarterLimit)
                                 ELSE NewCustomer("sub_B", "key_B", ProLimit)]
    /\ leads = {}
    /\ rq = [r \in Req |-> IdleRequest]
    /\ counted = [a \in Acct |-> {}]
    /\ zapier_webhooks = <<>>
    /\ customer_rows = <<>>
    /\ checkout = NoCheckout
    /\ listing = NoListing
    /\ corporate_members = {admin_member}
    /\ invite = [c \in Invite |-> IdleInvite]
    /\ now = 0
    /\ requests = [ip \in IPs |-> <<>>]
    /\ forwarded = [ip \in IPs |-> <<>>]
    /\ rate_response = NoRateResponse
    /\ session = "none"
    /\ job = [j \in Job |-> IdleJob]
    /\ scoring = IdleScoring

\* get_current_customer: resolves the bearer credential; 401 when no active row
get_current_customer(r, api_key, first_name) ==
    /\ rq[r].pc = "idle"
    /\ \A q \in Req : q < r => rq[q].pc # "idle"
    /\ LET customer == verify_api_key(customers, api_key)
       IN  rq' = [rq EXCEPT ![r] =
                    IF customer.id = NoId
                    THEN [@ EXCEPT !.pc = "rejected", !.api_key = api_key,
                                   !.first_name = first_name,
                                   !.response = [NoResponse EXCEPT !.code = 401]]
                    ELSE [@ EXCEPT !.pc = "authed", !.api_key = api_key,
                                   !.first_name = first_name,
                                   !.customer = customer]]
    /\ UNCHANGED <<auxVars, scoring, dispVars, env, customers, leads, counted>>

----------------------------------------------------------------------------
(* create_lead of routers/leads.py: every await is a point where other     *)
(* requests run; each execute_query opens its own connection and commits.  *)

\* the limit test that also bumps the counter of a rejected request
RouterCheck_counting(r) ==
    /\ env.deploy = "routers"
    /\ rq[r].pc = "authed"
    /\ customers' = update_customer_usage(customers, rq[r].customer)
    /\ rq' = [rq EXCEPT ![r] =
                IF limit_exceeded(rq[r].customer)
                THEN [@ EXCEPT !.pc = "rejected",
                               !.response = [NoResponse EXCEPT !.code = 429]]
                ELSE [@ EXCEPT !.pc = "admitted"]]
    /\ UNCHANGED <<auxVars, scoring, dispVars, env, leads, counted>>

\* lines 25-27: the test on the authentication snapshot; 429 without the limit
RouterCheck(r) ==
    /\ env.deploy = "routers"
    /\ rq[r].pc = "authed"
    /\ rq' = [rq EXCEPT ![r] =
                IF limit_exceeded(rq[r].customer)
                THEN [@ EXCEPT !.pc = "rejected",
                               !.response = [NoResponse EXCEPT !.code = 429]]
                ELSE [@ EXCEPT !.pc = "admitted"]]
    /\ UNCHANGED <<auxVars, scoring, dispVars, env, customers, leads, counted>>

\* lines 36-46: INSERT INTO leads, committed by itself; ok = FALSE: the statement raises
RouterInsert(r, ok) ==
    /\ env.deploy = "routers"
    /\ rq[r].pc = "admitted"
    /\ IF ok
       THEN /\ leads' = leads \cup {lead_row(r, rq[r].customer, rq[r].email)}
            /\ rq' = [rq EXCEPT ![r].pc = "inserted", ![r].wrote = @ \cup {"lead"}]
       ELSE /\ leads' = leads
            /\ rq' = [rq EXCEPT ![r].pc = "failed",
                                ![r].response = [NoResponse EXCEPT !.code = 500]]
    /\ UNCHANGED <<auxVars, scoring, dispVars, env, customers, counted>>

\* lines 48-66: the UPDATE, committed by itself, then add_task twice and return
RouterUpdate(r, ok) ==
    /\ env.deploy = "routers"
    /\ rq[r].pc = "inserted"
    /\ IF ok
       THEN /\ customers' = update_customer_usage(customers, rq[r].customer)
            /\ counted' = [counted EXCEPT ![rq[r].customer.id] = @ \cup {r}]
            /\ rq' = [rq EXCEPT
                        ![r].pc = "responded",
                        ![r].wrote = @ \cup {"counter"},
                        ![r].response =
                            [code |-> 200,
                             used |-> rq[r].customer.leads_used_this_month + 1,
                             limit |-> rq[r].customer.leads_limit]]
       ELSE /\ UNCHANGED <<customers, counted>>
            /\ rq' = [rq EXCEPT ![r].pc = "failed",
                                ![r].response = [NoResponse EXCEPT !.code = 500]]
    /\ UNCHANGED <<auxVars, scoring, dispVars, env, leads>>

\* first background task, send_to_zapier_async, after the response was sent.
\* services/webhook_service.py has no __aenter__: "async with" raises and
\* BackgroundTasks runs no further task.  With the aiohttp dispatcher the
\* task ends normally (ok) or an exception of get_customer_webhooks leaves it.
BgZapier(r, ok) ==
    /\ env.deploy = "routers"
    /\ rq[r].pc = "responded"
    /\ rq' = [rq EXCEPT ![r] =
                IF env.zapier = "requests" \/ ~ok
                THEN [@ EXCEPT !.pc = "done", !.failures = @ \cup {"webhook"}]
                ELSE [@ EXCEPT !.pc = "bg_email", !.effects = @ \cup {"webhook"}]]
    /\ UNCHANGED <<auxVars, scoring, dispVars, env, customers, leads, counted>>

\* second background task, send_welcome_email_async
BgEmail(r, delivered) ==
    /\ env.deploy = "routers"
    /\ rq[r].pc = "bg_email"
    /\ LET email_sent == IF rq[r].first_name
                         THEN send_email(env.sendgrid, delivered) ELSE "skip"
       IN  rq' = [rq EXCEPT
                    ![r].pc = "done",
                    ![r].effects = IF rq[r].first_name /\ env.sendgrid
                                   THEN @ \cup {"email"} ELSE @,
                    ![r].failures = IF rq[r].first_name /\ env.sendgrid
                                       /\ email_sent # "True"
                                    THEN @ \cup {"email"} ELSE @]
    /\ UNCHANGED <<auxVars, scoring, dispVars, env, customers, leads, counted>>

----------------------------------------------------------------------------
(* create_lead of app.py: an async def without any await, so the body runs *)
(* in one piece on the event loop; one connection, one commit.             *)

AppCreateLead(r, ok, delivered, synced) ==
    /\ env.deploy = "app"
    /\ rq[r].pc = "authed"
    /\ LET customer == rq[r].customer IN
       IF ~check_usage_limit(customers, customer.id)
       THEN /\ rq' = [rq EXCEPT ![r].pc = "rejected",
                                ![r].response = [code |-> 429, used |-> 0,
                                                 limit |-> customer.leads_limit]]
            /\ UNCHANGED <<customers, leads, counted>>
       ELSE IF ~ok
       THEN \* a statement raised before conn.commit(): nothing is persisted
            /\ rq' = [rq EXCEPT ![r].pc = "failed",
                                ![r].response = [NoResponse EXCEPT !.code = 500]]
            /\ UNCHANGED <<customers, leads, counted>>
       ELSE \* send_email and sync_lead_to_hubspot run after the commit and
            \* before return, inside the try: an exception that left one of
            \* them would reach the except clause and give 500
            LET email_sent == IF rq[r].first_name /\ env.sendgrid
                              THEN send_email(env.sendgrid, delivered) ELSE "skip"
                hubspot_synced == IF env.hubspot /\ email_sent # "raise"
                                  THEN sync_lead_to_hubspot(env.hubspot, synced)
                                  ELSE "skip"
                raised == "raise" \in {email_sent, hubspot_synced}
            IN
            /\ leads' = leads \cup {lead_row(r, customer, rq[r].email)}
            /\ customers' = update_customer_usage(customers, customer)
            /\ counted' = [counted EXCEPT ![customer.id] = @ \cup {r}]
            /\ rq' = [rq EXCEPT
                        ![r].pc = IF raised THEN "failed" ELSE "done",
                        ![r].wrote = {"lead", "counter"},
                        ![r].effects =
                            (IF email_sent # "skip" THEN {"email"} ELSE {})
                            \cup (IF hubspot_synced # "skip" THEN {"crm"} ELSE {}),
                        ![r].failures =
                            (IF email_sent \in {"False", "raise"} THEN {"email"} ELSE {})
                            \cup (IF hubspot_synced \in {"False", "raise"}
                                  THEN {"crm"} ELSE {}),
                        ![r].response =
                            IF raised THEN [NoResponse EXCEPT !.code = 500]
                            ELSE [code |-> 200,
                                  used |-> customer.leads_used_this_month + 1,
                                  limit |-> customer.leads_limit]]
    /\ UNCHANGED <<auxVars, scoring, dispVars, env>>

----------------------------------------------------------------------------
(* stripe_webhook of app.py, for an event that construct_event accepted    *)

InvoicePaymentSucceeded(subscription_id) ==
    /\ env.deploy = "app"
    /\ customers' = reset_monthly_usage(customers, subscription_id)
    /\ counted' = [a \in Acct |->
                     IF a \in matched(customers, subscription_id) THEN {} ELSE counted[a]]
    /\ UNCHANGED <<auxVars, scoring, dispVars, env, leads, rq>>

InvoicePaymentFailed(subscription_id) ==
    /\ env.deploy = "app"
    /\ customers' = set_status_by_subscription(customers, subscription_id, "payment_failed")
    /\ UNCHANGED <<auxVars, scoring, dispVars, env, leads, rq, counted>>

SubscriptionDeleted(subscription_id) ==
    /\ env.deploy = "app"
    /\ customers' = set_status_by_subscription(customers, subscription_id, "cancelled")
    /\ UNCHANGED <<auxVars, scoring, dispVars, env, leads, rq, counted>>

\* AdminService.update_customer with updates = {status: ...} (Suspend / Activate)
AdminUpdateStatus(customer_id, status) ==
    /\ env.deploy = "routers"
    /\ customers' = [customers EXCEPT ![customer_id].status = status]
    /\ UNCHANGED <<auxVars, scoring, dispVars, env, leads, rq, counted>>

Next ==
    \/ \E r \in Req, k \in ApiKeys, f \in BOOLEAN : get_current_customer(r, k, f)
    \/ \E r \in Req : RouterCheck(r)
    \/ \E r \in Req, ok \in BOOLEAN : RouterInsert(r, ok)
    \/ \E r \in Req, ok \in BOOLEAN : RouterUpdate(r, ok)
    \/ \E r \in Req, ok \in BOOLEAN : BgZapier(r, ok)
    \/ \E r \in Req, delivered \in BOOLEAN : BgEmail(r, delivered)
    \/ \E r \in Req, ok, delivered, synced \in BOOLEAN : AppCreateLead(r, ok, delivered, synced)
    \/ \E s \in SubIds : InvoicePaymentSucceeded(s)
    \/ \E s \in SubIds : InvoicePaymentFailed(s)
    \/ \E s \in SubIds : SubscriptionDeleted(s)
    \/ \E a \in Acct, s \in {"active", "suspended"} : AdminUpdateStatus(a, s)

Spec == Init /\ [][Next]_vars

----------------------------------------------------------------------------
(* Webhook dispatch.  routers/ import zapier_service from the dispatcher   *)
(* module; env.zapier says which of the two dispatcher modules of the      *)
(* repository is deployed: the one built on requests or the one built on   *)
(* aiohttp.  Dispatch runs after the response of create_lead, so it reads  *)
(* and writes none of the accounting tables.                               *)

\* a POST without timeout: an endpoint that never answers never returns
Answer_no_timeout(webhook_url) ==
    CASE webhook_url = "u_ok" -> {"200"}
      [] webhook_url = "u_down" -> {}
      [] OTHER -> {"200", "non200"}

\* what one POST to the endpoint can produce; timeout=10 turns an endpoint
\* that never answers into an exception, like a refused connection
Answer(webhook_url) ==
    CASE webhook_url = "u_ok" -> {"200"}
      [] webhook_url = "u_down" -> {"error"}
      [] OTHER -> {"200", "non200"}

\* for attempt in range(retry_count), continued past the stated bound
more_attempts_unbounded(attempt) == attempt + 1 <= retry_count

\* for attempt in range(retry_count): is there an attempt after this one
more_attempts(attempt) == attempt + 1 < retry_count

\* the delay of the retry loop with the exponent one too high
backoff_doubled(attempt) == 2 ^ (attempt + 1)

\* sleep(2 ** attempt): seconds slept after the failed pass number attempt
backoff(attempt) == 2 ^ attempt

\* SELECT * FROM zapier_webhooks WHERE customer_id = ? AND active = TRUE
get_customer_webhooks(tbl, customer_id) ==
    SelectSeq(tbl, LAMBDA w : w.customer_id = customer_id /\ w.active)

\* INSERT INTO zapier_webhooks: active is always stored as True
save_webhook_config(tbl, customer_id, webhook_url) ==
    Append(tbl, [id |-> Len(tbl) + 1, customer_id |-> customer_id,
                 webhook_url |-> webhook_url, active |-> TRUE])

\* POST /webhooks/zapier.  The aiohttp module never imports uuid, so its
\* save_webhook_config raises NameError and the handler answers 500.
create_zapier_webhook(customer_id, webhook_url, active) ==
    /\ env.deploy = "routers"
    /\ Len(zapier_webhooks) < MaxHooks
    /\ zapier_webhooks' =
          IF env.zapier = "requests"
          THEN save_webhook_config(zapier_webhooks, customer_id, webhook_url)
          ELSE zapier_webhooks
    /\ UNCHANGED <<auxVars, scoring, env, acctVars, session, job>>

\* send_to_zapier_async, async with zapier_service: the requests dispatcher
\* has no __aenter__, so the statement raises and the task ends; the aiohttp
\* dispatcher stores a new ClientSession in the singleton
DispatchEnter(j, customer_id) ==
    /\ env.deploy = "routers"
    /\ job[j].pc = "idle"
    /\ \A i \in Job : i < j => job[i].pc # "idle"
    /\ IF env.zapier = "requests"
       THEN /\ job' = [job EXCEPT ![j] =
                         [@ EXCEPT !.pc = "raised", !.kind = "lead",
                                   !.customer_id = customer_id,
                                   !.started_with = Len(zapier_webhooks)]]
            /\ UNCHANGED session
       ELSE /\ job' = [job EXCEPT ![j] =
                         [@ EXCEPT !.pc = "fetch", !.kind = "lead",
                                   !.customer_id = customer_id,
                                   !.started_with = Len(zapier_webhooks)]]
            /\ session' = "open"
    /\ UNCHANGED <<auxVars, scoring, env, acctVars, zapier_webhooks>>

\* webhooks = await zapier_service.get_customer_webhooks(customer_id)
DispatchFetch(j) ==
    /\ job[j].pc = "fetch"
    /\ LET webhooks == get_customer_webhooks(zapier_webhooks, job[j].customer_id)
       IN  job' = [job EXCEPT ![j] =
                     IF webhooks = <<>>
                     THEN [@ EXCEPT !.pc = "exit"]
                     ELSE [@ EXCEPT !.pc = "send", !.webhooks = webhooks,
                                    !.idx = 1, !.attempt = 0,
                                    !.calls = <<NewCall(webhooks[1].webhook_url)>>]]
    /\ UNCHANGED <<auxVars, scoring, env, acctVars, zapier_webhooks, session>>

\* the outcomes of one pass of the retry loop: the aiohttp dispatcher posts
\* through self.session, which raises when it is None or closed
Outcomes(webhook_url) ==
    IF env.zapier = "aiohttp" /\ session # "open"
    THEN {"no_post"}
    ELSE Answer(webhook_url)

\* send_to_zapier has returned: the dispatch loop goes to the next webhook,
\* the test endpoint answers
Returned(j, calls) ==
    IF job[j].kind = "test"
    THEN [job[j] EXCEPT !.pc = "done", !.calls = calls]
    ELSE IF job[j].idx < Len(job[j].webhooks)
         THEN [job[j] EXCEPT !.idx = @ + 1, !.attempt = 0,
                  !.calls = Append(calls,
                               NewCall(job[j].webhooks[job[j].idx + 1].webhook_url))]
         ELSE [job[j] EXCEPT !.pc = "exit", !.calls = calls]

\* one pass of the retry loop of send_to_zapier
Attempt(j, outcome) ==
    /\ job[j].pc = "send"
    /\ LET n == Len(job[j].calls)
           c == job[j].calls[n]
           logged == [c EXCEPT !.log = Append(@, outcome)]
       IN  /\ outcome \in Outcomes(c.webhook_url)
           /\ job' = [job EXCEPT ![j] =
                 IF outcome = "200"
                 THEN Returned(j, [job[j].calls EXCEPT
                                      ![n] = [logged EXCEPT !.result = "True"]])
                 ELSE IF more_attempts(job[j].attempt)
                      THEN [@ EXCEPT !.attempt = @ + 1,
                                     !.calls[n] = [logged EXCEPT !.waits =
                                         Append(@, backoff(job[j].attempt))]]
                      ELSE Returned(j, [job[j].calls EXCEPT
                                      ![n] = [logged EXCEPT !.result = "False"]])]
    /\ UNCHANGED <<auxVars, scoring, env, acctVars, zapier_webhooks, session>>

\* __aexit__ of the aiohttp dispatcher: closes whatever session the singleton
\* holds at that time
DispatchExit(j) ==
    /\ job[j].pc = "exit"
    /\ job' = [job EXCEPT ![j].pc = "done"]
    /\ session' = IF session = "none" THEN "none" ELSE "closed"
    /\ UNCHANGED <<auxVars, scoring, env, acctVars, zapier_webhooks>>

\* POST /webhooks/zapier/test: calls send_to_zapier on the URL of the request,
\* outside any async with
test_zapier_webhook(j, webhook_url) ==
    /\ env.deploy = "routers"
    /\ job[j].pc = "idle"
    /\ \A i \in Job : i < j => job[i].pc # "idle"
    /\ job' = [job EXCEPT ![j] =
                 [@ EXCEPT !.pc = "send", !.kind = "test", !.attempt = 0,
                           !.calls = <<NewCall(webhook_url)>>]]
    /\ UNCHANGED <<auxVars, scoring, env, acctVars, zapier_webhooks, session>>

NextDispatch ==
    \/ \E a \in Acct, u \in Urls, active \in BOOLEAN : create_zapier_webhook(a, u, active)
    \/ \E j \in Job, a \in Acct : DispatchEnter(j, a)
    \/ \E j \in Job : DispatchFetch(j)
    \/ \E j \in Job, o \in {"200", "non200", "error", "no_post"} : Attempt(j, o)
    \/ \E j \in Job : DispatchExit(j)
    \/ \E j \in Job, u \in Urls : test_zapier_webhook(j, u)

SpecDispatch == Init /\ [][NextDispatch]_vars

\* a started delivery is a coroutine of the event loop: the loop runs every
\* coroutine that can take a step, and sleep and the POST return in bounded time
DispatchStep(j) ==
    \/ DispatchFetch(j)
    \/ \E o \in {"200", "non200", "error", "no_post"} : Attempt(j, o)
    \/ DispatchExit(j)

SpecDispatchFair == SpecDispatch /\ \A j \in Job : WF_vars(DispatchStep(j))

----------------------------------------------------------------------------
(* Scoring engine.  Under src/ the only scoring function is                *)
(* AIResponseService.score_lead_interest; determine_stage is described by  *)
(* the specification of the engine (section 4.1) and has no source here.   *)

\* return int(response.choices[0].message.content.strip()), except: return 50
score_lead_interest(reply) ==
    IF reply.numeric THEN reply.value ELSE 50

\* the stage table read with the warm_lead row first
determine_stage_warm_first(score, ready_for_demo) ==
    IF score >= 60 THEN "warm_lead"
    ELSE IF ready_for_demo /\ score >= 70 THEN "hot_lead"
    ELSE IF score >= 40 THEN "qualified"
    ELSE IF score >= 20 THEN "nurture"
    ELSE "unqualified"

\* determine_stage(score, ready_for_demo): first match wins
determine_stage(score, ready_for_demo) ==
    IF ready_for_demo /\ score >= 70 THEN "hot_lead"
    ELSE IF score >= 60 THEN "warm_lead"
    ELSE IF score >= 40 THEN "qualified"
    ELSE IF score >= 20 THEN "nurture"
    ELSE "unqualified"

\* one call of score_lead_interest; the reply is what the model answered.
\* chat.completions.create is awaited outside the try, so when the call to the
\* API fails (answered = FALSE) the exception leaves score_lead_interest.
ScoreLeadInterest(reply, answered) ==
    /\ scoring.pc = "idle"
    /\ scoring' = IF answered
                  THEN [scoring EXCEPT !.pc = "scored", !.reply = reply,
                                       !.score = score_lead_interest(reply)]
                  ELSE [scoring EXCEPT !.pc = "raised"]
    /\ UNCHANGED <<auxVars, env, acctVars, dispVars>>

\* the stage of the score just produced
DetermineStage(ready_for_demo) ==
    /\ scoring.pc = "scored"
    /\ scoring' = [scoring EXCEPT
                     !.pc = "staged", !.ready_for_demo = ready_for_demo,
                     !.stage = determine_stage(scoring.score, ready_for_demo)]
    /\ UNCHANGED <<auxVars, env, acctVars, dispVars>>

NextScoring ==
    \/ \E reply \in Replies, answered \in BOOLEAN : ScoreLeadInterest(reply, answered)
    \/ \E ready_for_demo \in BOOLEAN : DetermineStage(ready_for_demo)

SpecScoring == Init /\ [][NextScoring]_vars

----------------------------------------------------------------------------
(* RateLimitMiddleware.  dispatch has no await before call_next, so one     *)
(* request runs from reading the clock to the decision without another      *)
(* request in between.  self.requests is a dict; an IP without entry is the *)
(* empty sequence here, for every stored list holds at least one time.      *)

\* [t for t in times if t > current_time - 60]
recent(times, current_time) ==
    SelectSeq(times, LAMBDA t : t > current_time - Window)

\* Clean old requests: keep the IPs that have a time in the window
clean(reqs, current_time) ==
    [ip \in IPs |-> IF recent(reqs[ip], current_time) # <<>> THEN reqs[ip] ELSE <<>>]

\* the limit test with > for >=
over_limit_strict(recent_requests) == Len(recent_requests) > calls_per_minute

\* if len(recent_requests) >= self.calls_per_minute
over_limit(recent_requests) == Len(recent_requests) >= calls_per_minute

\* RateLimitMiddleware.dispatch for one request of client_ip
RateLimitDispatch(client_ip) ==
    LET current_time == now
        cleaned == clean(requests, current_time)
        recent_requests == recent(cleaned[client_ip], current_time)
    IN  /\ IF cleaned[client_ip] # <<>> /\ over_limit(recent_requests)
           THEN /\ requests' = cleaned
                /\ rate_response' = [client_ip |-> client_ip, status_code |-> 429]
                /\ UNCHANGED forwarded
           ELSE /\ requests' = [cleaned EXCEPT ![client_ip] =
                                   Append(recent_requests, current_time)]
                /\ forwarded' = [forwarded EXCEPT ![client_ip] =
                                    Append(@, current_time)]
                /\ rate_response' = [client_ip |-> client_ip, status_code |-> 200]
        /\ UNCHANGED <<coreVars, signupVars, listVars, corpVars, now>>

\* time passes
Tick ==
    /\ now < MaxTime
    /\ now' = now + 1
    /\ UNCHANGED <<coreVars, signupVars, listVars, corpVars, requests, forwarded,
                   rate_response>>

NextRateLimit ==
    \/ \E client_ip \in IPs : RateLimitDispatch(client_ip)
    \/ Tick

SpecRateLimit == Init /\ [][NextRateLimit]_vars

----------------------------------------------------------------------------
(* Checkout success.  app.py and services/stripe_service.py each have a     *)
(* handle_successful_payment; env.deploy says which one runs.  An API key   *)
(* is a fresh uuid: the n-th key issued is the number n.                    *)

\* PRICING_PLANS[plan]['leads_limit']
plan_leads_limit(plan) == IF plan = "starter" THEN StarterLimit ELSE ProLimit

\* SELECT id FROM customers WHERE email = ?
existing_customer(rows, customer_email) ==
    {i \in DOMAIN rows : rows[i].email = customer_email}

\* INSERT INTO customers (...) VALUES (...), status 'active'
insert_customer(rows, customer_email, plan, api_key) ==
    Append(rows, [email |-> customer_email, plan |-> plan, api_key |-> api_key,
                  leads_limit |-> plan_leads_limit(plan), status |-> "active"])

\* UPDATE customers SET plan = ?, api_key = ?, leads_limit = ?,
\* status = 'active' WHERE email = ?
update_customer_by_email(rows, customer_email, plan, api_key) ==
    [i \in DOMAIN rows |->
        IF rows[i].email = customer_email
        THEN [rows[i] EXCEPT !.plan = plan, !.api_key = api_key,
                             !.leads_limit = plan_leads_limit(plan),
                             !.status = "active"]
        ELSE rows[i]]

\* what handle_successful_payment does to the table.  app.py looks the email
\* up and updates or inserts; services/stripe_service.py always inserts, and
\* email TEXT UNIQUE NOT NULL makes the INSERT of a known email raise.
store_customer(rows, customer_email, plan, api_key) ==
    IF env.deploy = "app"
    THEN [rows |-> IF existing_customer(rows, customer_email) # {}
                   THEN update_customer_by_email(rows, customer_email, plan, api_key)
                   ELSE insert_customer(rows, customer_email, plan, api_key),
          result |-> "ok"]
    ELSE IF existing_customer(rows, customer_email) # {}
         THEN [rows |-> rows, result |-> "raised"]
         ELSE [rows |-> insert_customer(rows, customer_email, plan, api_key),
               result |-> "ok"]

\* SELECT * FROM customers WHERE api_key = ? AND status = 'active'
authenticates(rows, api_key) ==
    {i \in DOMAIN rows : rows[i].api_key = api_key /\ rows[i].status = "active"}

\* handle_successful_payment(session_id) for a session with this email and plan
HandleSuccessfulPayment(customer_email, plan) ==
    /\ checkout.n < MaxCheckouts
    /\ LET api_key == checkout.n + 1
           stored == store_customer(customer_rows, customer_email, plan, api_key)
       IN  /\ customer_rows' = stored.rows
           /\ checkout' = [n |-> checkout.n + 1, customer_email |-> customer_email,
                           plan |-> plan, api_key |-> api_key,
                           result |-> stored.result]
    /\ UNCHANGED <<coreVars, limitVars, listVars, corpVars>>

\* stripe_webhook, invoice.payment_failed and customer.subscription.deleted,
\* for the subscription of row i
CheckoutStatusEvent(i, status) ==
    /\ env.deploy = "app"
    /\ i \in DOMAIN customer_rows
    /\ customer_rows' = [customer_rows EXCEPT ![i].status = status]
    /\ UNCHANGED <<coreVars, limitVars, listVars, corpVars, checkout>>

\* AdminService.update_customer(customer_id, {status: ...})
AdminSetStatus(i, status) ==
    /\ env.deploy = "routers"
    /\ i \in DOMAIN customer_rows
    /\ customer_rows' = [customer_rows EXCEPT ![i].status = status]
    /\ UNCHANGED <<coreVars, limitVars, listVars, corpVars, checkout>>

NextCheckout ==
    \/ \E e \in Emails, p \in Plans : HandleSuccessfulPayment(e, p)
    \/ \E i \in 1..MaxCheckouts, st \in {"payment_failed", "cancelled"} :
          CheckoutStatusEvent(i, st)
    \/ \E i \in 1..MaxCheckouts, st \in {"payment_failed", "cancelled"} :
          AdminSetStatus(i, st)

SpecCheckout == Init /\ [][NextCheckout]_vars

----------------------------------------------------------------------------
(* Listings.  GET /api/leads pages through the leads of the caller in the   *)
(* order of created_at, which the table here does not carry: a page is any  *)
(* set of the right size.  GET /webhooks/zapier returns the active          *)
(* registrations of the caller.                                             *)

\* SELECT * FROM leads, without the WHERE clause
get_leads_unfiltered(tbl, customer_id) == tbl

\* SELECT * FROM leads WHERE customer_id = ?
get_leads(tbl, customer_id) == {l \in tbl : l.customer_id = customer_id}

\* ORDER BY created_at DESC LIMIT ? OFFSET ?: the pages the rows can give
pages(rows, skip, limit) ==
    LET left == IF Cardinality(rows) > skip THEN Cardinality(rows) - skip ELSE 0
        size == IF left > limit THEN limit ELSE left
    IN  {page \in SUBSET rows : Cardinality(page) = size}

\* the rows of a sequence, as a set
rows_of(seq) == {seq[i] : i \in DOMAIN seq}

\* GET /api/leads with the credential of customer_id
GetLeads(customer_id, skip, limit) ==
    /\ customers[customer_id].status = "active"
    /\ \E page \in pages(get_leads(leads, customer_id), skip, limit) :
          listing' = [kind |-> "leads", customer_id |-> customer_id, rows |-> page]
    /\ UNCHANGED <<coreVars, limitVars, signupVars, corpVars>>

\* GET /webhooks/zapier with the credential of customer_id
get_zapier_webhooks(customer_id) ==
    /\ env.deploy = "routers"
    /\ customers[customer_id].status = "active"
    /\ listing' = [kind |-> "webhooks", customer_id |-> customer_id,
                   rows |-> rows_of(get_customer_webhooks(zapier_webhooks,
                                                          customer_id))]
    /\ UNCHANGED <<coreVars, limitVars, signupVars, corpVars>>

NextListing ==
    \/ \E r \in Req, k \in ApiKeys, fn \in BOOLEAN : get_current_customer(r, k, fn)
    \/ \E r \in Req : RouterCheck(r)
    \/ \E r \in Req, ok \in BOOLEAN : RouterInsert(r, ok)
    \/ \E r \in Req, ok, d, sy \in BOOLEAN : AppCreateLead(r, ok, d, sy)
    \/ \E a \in Acct, u \in Urls, active \in BOOLEAN : create_zapier_webhook(a, u, active)
    \/ \E a \in Acct, skip \in {0, 1}, limit \in {1, 50} : GetLeads(a, skip, limit)
    \/ \E a \in Acct : get_zapier_webhooks(a)

SpecListing == Init /\ [][NextListing]_vars

----------------------------------------------------------------------------
(* Corporate accounts.  add_team_member awaits the count, the account and   *)
(* the INSERT one after the other, so calls of concurrent requests          *)
(* interleave at each await.                                                *)

\* SELECT COUNT(*) FROM corporate_members WHERE corporate_id = ? AND active = TRUE
get_member_count(tbl) == Cardinality({m \in tbl : m.active})

\* current_members = await self.get_member_count(corporate_id)
AddMemberCount(c) ==
    /\ invite[c].pc = "idle"
    /\ \A i \in Invite : i < c => invite[i].pc # "idle"
    /\ invite' = [invite EXCEPT ![c] = [pc |-> "counted", current_members |->
                                           get_member_count(corporate_members)]]
    /\ UNCHANGED <<coreVars, limitVars, signupVars, listVars, corporate_members>>

\* get_corporate_account and the capacity test: raise ValueError at capacity
AddMemberCheck(c) ==
    /\ invite[c].pc = "counted"
    /\ invite' = [invite EXCEPT ![c].pc =
                     IF invite[c].current_members >= max_users THEN "raised"
                                                               ELSE "insert"]
    /\ UNCHANGED <<coreVars, limitVars, signupVars, listVars, corporate_members>>

\* INSERT INTO corporate_members (...), then the invitation email
AddMemberInsert(c) ==
    /\ invite[c].pc = "insert"
    /\ corporate_members' = corporate_members \cup
                               {[id |-> c, active |-> member_active_default]}
    /\ invite' = [invite EXCEPT ![c].pc = "invited"]
    /\ UNCHANGED <<coreVars, limitVars, signupVars, listVars>>

\* UPDATE corporate_members SET active = FALSE WHERE id = ?
deactivate_member(member_id) ==
    /\ \E m \in corporate_members : m.id = member_id /\ m.active
    /\ corporate_members' =
          {IF m.id = member_id THEN [m EXCEPT !.active = FALSE] ELSE m :
              m \in corporate_members}
    /\ UNCHANGED <<coreVars, limitVars, signupVars, listVars, invite>>

NextCorporate ==
    \/ \E c \in Invite : AddMemberCount(c)
    \/ \E c \in Invite : AddMemberCheck(c)
    \/ \E c \in Invite : AddMemberInsert(c)
    \/ \E m \in Invite \cup {0} : deactivate_member(m)

SpecCorporate == Init /\ [][NextCorporate]_vars

----------------------------------------------------------------------------
(* Usage accounting *)

\* the step in which request r passes or fails the limit test
CheckStep(r) == rq[r].pc = "authed" /\ rq'[r].pc # "authed"
\* the step in which request r gets its success response
RespondStep(r) == rq[r].response.code # 200 /\ rq'[r].response.code = 200
Quiescent == \A r \in Req : ~InFlight(r)
HasLead(r) == \E l \in leads : l.id = r

\* C1: create_lead admits a request exactly when the account's
\* leads_used_this_month is strictly below leads_limit at the moment of the check.
C1_AdmitIffBelowLimit ==
    [][\A r \in Req :
         CheckStep(r) =>
            LET a == rq[r].customer.id
            IN  (rq'[r].pc # "rejected") <=>
                (customers[a].leads_used_this_month < customers[a].leads_limit)]_vars

\* C2: a request that fails the limit test gets 429, and that step inserts no
\* lead row and leaves every counter as it was; the request never owns a lead row.
C2_RejectLeavesStore ==
    [][\A r \in Req :
         /\ (CheckStep(r) /\ rq'[r].response.code = 429) =>
                /\ leads' = leads
                /\ customers' = customers
                /\ rq'[r].pc = "rejected"
         /\ rq[r].response.code = 429 =>
                /\ ~HasLead(r)
                /\ rq[r].wrote = {}
                /\ rq'[r] = rq[r]]_vars

C2_Witness ==
    \E r \in Req :
        /\ rq[r].response.code = 429
        /\ customers[rq[r].customer.id].leads_used_this_month
              = customers[rq[r].customer.id].leads_limit
        /\ ~HasLead(r)

\* C3: when no request is in flight, every request has persisted both its lead
\* row and its increment, or neither.
C3_InsertAndIncrementTogether ==
    Quiescent => \A r \in Req : rq[r].wrote \in {{}, {"lead", "counter"}}

\* C4: the counter of an account equals the number of requests that applied
\* their increment since it was last set to 0, however the requests interleave:
\* no increment is lost and none is applied twice.
C4_NoLostIncrement ==
    \A a \in Acct :
        /\ customers[a].leads_used_this_month = Cardinality(counted[a])
        /\ \A r \in counted[a] :
              /\ rq[r].customer.id = a
              /\ rq[r].response.code = 200
              /\ "counter" \in rq[r].wrote
        /\ \A r \in Req :
              (rq[r].customer.id = a /\ rq[r].response.code = 200)
                  => "counter" \in rq[r].wrote

\* two requests of one account that both authenticated before either increment
C4_Witness ==
    \E a \in Acct : \E r1, r2 \in counted[a] :
        /\ r1 # r2
        /\ rq[r1].customer.leads_used_this_month = 0
        /\ rq[r2].customer.leads_used_this_month = 0
        /\ customers[a].leads_used_this_month = 2
        /\ Quiescent

\* C5: a request that presents the credential of an account whose status is not
\* active is rejected at authentication, and a rejected request writes nothing.
C5_InactiveRejected ==
    [][\A r \in Req :
         /\ (rq[r].pc = "idle" /\ rq'[r].pc # "idle"
               /\ \E a \in Acct : /\ customers[a].api_key = rq'[r].api_key
                                  /\ customers[a].status # "active")
              => /\ rq'[r].pc = "rejected"
                 /\ rq'[r].response.code = 401
                 /\ leads' = leads
                 /\ customers' = customers
         /\ rq[r].pc = "rejected" => (rq'[r] = rq[r] /\ ~HasLead(r))]_vars

C5_Witness ==
    \E r \in Req : \E a \in Acct :
        /\ customers[a].status \in {"payment_failed", "cancelled"}
        /\ rq[r].api_key = customers[a].api_key
        /\ rq[r].response.code = 401
        /\ rq[r].wrote = {}

\* C6: the payment-succeeded update sets the counter of the matched account to 0
\* from any value, and applying it a second time changes nothing.
C6_ResetState ==
    \A s \in SubIds :
        LET once == reset_monthly_usage(customers, s)
        IN  /\ \A a \in matched(customers, s) : once[a].leads_used_this_month = 0
            /\ reset_monthly_usage(once, s) = once

C7_ResetFrame ==
    /\ [](\A s \in SubIds : Cardinality(matched(customers, s)) <= 1)
    /\ [][\A a \in Acct :
            customers'[a].leads_used_this_month < customers[a].leads_used_this_month
               => /\ customers'[a] = [customers[a] EXCEPT !.leads_used_this_month = 0]
                  /\ \A b \in Acct \ {a} : customers'[b] = customers[b]]_vars

\* account A reset while account B keeps a non-zero counter
C7_Witness ==
    \E r \in Req :
        LET a == rq[r].customer.id
        IN  /\ "counter" \in rq[r].wrote
            /\ r \notin counted[a]
            /\ customers[a].leads_used_this_month = 0
            /\ \E b \in Acct \ {a} : customers[b].leads_used_this_month > 0

----------------------------------------------------------------------------
(* Webhook delivery *)

\* the attempts of a call that reached the endpoint
CountPosts(log) == Cardinality({k \in 1..Len(log) : log[k] # "no_post"})

\* the POSTs delivery j made to the registration with this id
Posts(j, id) ==
    LET ks == {k \in DOMAIN job[j].calls \cap DOMAIN job[j].webhooks :
                     job[j].webhooks[k].id = id}
    IN  IF ks = {} THEN 0
        ELSE CountPosts(job[j].calls[CHOOSE k \in ks : TRUE].log)

\* C8: every call of send_to_zapier makes at most 3 attempts, hence at most 3
\* POSTs; no attempt follows one answered 200; the call returns True exactly
\* when its last attempt was answered 200, and returns False exactly when 3
\* attempts were made and none was answered 200 (a non-200 answer and a
\* transport error each use up one attempt); once it has returned, the call
\* makes no further attempt.
C8_RetryPolicy ==
    \A j \in Job : \A n \in 1..Len(job[j].calls) :
        LET c == job[j].calls[n]
            L == c.log
        IN  /\ Len(L) <= 3
            /\ CountPosts(L) <= 3
            /\ \A k \in 1..(Len(L) - 1) : L[k] # "200"
            /\ c.result = "True" <=> (L # <<>> /\ L[Len(L)] = "200")
            /\ c.result = "False" <=> (Len(L) = 3 /\ \A k \in 1..3 : L[k] # "200")
            /\ c.result # "none" => (n < Len(job[j].calls) \/ job[j].pc # "send")

\* a call that used up its 3 attempts on POSTs that failed, and reported failure
C8_Witness ==
    \E j \in Job :
        /\ job[j].pc = "done"
        /\ Len(job[j].calls) = 1
        /\ Len(job[j].calls[1].log) = 3
        /\ \A k \in 1..3 : job[j].calls[1].log[k] \in {"non200", "error"}
        /\ job[j].calls[1].result = "False"

\* C9: when a dispatch for an account has ended, and the account had, when the
\* dispatch started, an active registration with an unreachable URL, then every
\* active registration of the account with a reachable URL has received exactly
\* one POST from that dispatch.
C9_WebhookIsolation ==
    \A j \in Job :
        (job[j].kind = "lead" /\ job[j].pc \in {"done", "raised"}) =>
            LET regs == get_customer_webhooks(
                            SubSeq(zapier_webhooks, 1, job[j].started_with),
                            job[j].customer_id)
            IN  (\E d \in 1..Len(regs) : regs[d].webhook_url = "u_down") =>
                    \A i \in 1..Len(regs) :
                        regs[i].webhook_url = "u_ok" => Posts(j, regs[i].id) = 1

\* C10: create_lead returns its success response before the outbound email,
\* the CRM sync and the webhook delivery of that lead have completed.
C10_ResponseBeforeSideEffects ==
    [][\A r \in Req : RespondStep(r) => rq'[r].effects = {}]_vars


\* C11: a request whose lead row and counter increment are both stored has the
\* response 200 "created", whatever the email send, the CRM sync and the
\* webhook task gave; a response 200 never changes afterwards; a side effect
\* is recorded as failed only for a request that was answered 200.
C11_SideEffectsNeverFail ==
    /\ [](\A r \in Req :
            /\ rq[r].wrote = {"lead", "counter"} => rq[r].response.code = 200
            /\ rq[r].failures # {} => rq[r].response.code = 200)
    /\ [][\A r \in Req :
            rq[r].response.code = 200 => rq'[r].response = rq[r].response]_vars

\* a finished request whose email send failed and that was answered 200
C11_Witness ==
    \E r \in Req :
        /\ rq[r].pc = "done"
        /\ "email" \in rq[r].failures
        /\ rq[r].wrote = {"lead", "counter"}
        /\ rq[r].response.code = 200

\* C12: no two rows of leads have the same customer_id and the same email (a
\* second create_lead with a stored email would be answered with a conflict
\* and insert nothing).
C12_UniqueLeadEmail ==
    \A l1, l2 \in leads :
        (l1.customer_id = l2.customer_id /\ l1.email = l2.email) => l1 = l2

\* C13: when a dispatch for an account has ended, every registration of the
\* account that was active when it started has been sent the event, and
\* every call the dispatch made went to an active registration of that account.
C13_DispatchToActiveOwn ==
    \A j \in Job :
        (job[j].kind = "lead" /\ job[j].pc \in {"done", "raised"}) =>
            /\ \A i \in 1..job[j].started_with :
                   (zapier_webhooks[i].customer_id = job[j].customer_id
                    /\ zapier_webhooks[i].active)
                   => Posts(j, zapier_webhooks[i].id) >= 1
            /\ \A k \in 1..Len(job[j].calls) :
                   /\ job[j].webhooks[k].customer_id = job[j].customer_id
                   /\ job[j].webhooks[k].active

\* C14: the webhook task of a request has run only if the stored lead of the
\* request has been scored and its score has crossed the threshold (whatever
\* the threshold, a score of 0 has not crossed it).
C14_DispatchOnlyAboveThreshold ==
    \A r \in Req :
        "webhook" \in (rq[r].effects \cup rq[r].failures) =>
            \E l \in leads : l.id = r /\ l.qualification_score > 0

\* C15: every score the engine has produced is an integer in 0..100, and so is
\* the qualification_score of every stored lead.
C15_ScoreInRange ==
    /\ scoring.pc # "idle" => scoring.score \in 0..100
    /\ \A l \in leads : l.qualification_score \in 0..100

\* C16: for a score in 0..100, determine_stage gives one of the five stages:
\* hot_lead exactly when ready_for_demo holds and the score is at least 70,
\* otherwise warm_lead exactly from 60 up, qualified exactly in 40..59, nurture
\* exactly in 20..39 and unqualified exactly below 20.
C16_StageTotalAndPriority ==
    (scoring.pc = "staged" /\ scoring.score \in 0..100) =>
        LET score == scoring.score
            hot == scoring.ready_for_demo /\ score >= 70
            stage == scoring.stage
        IN  /\ stage \in Stages
            /\ stage = "hot_lead" <=> hot
            /\ stage = "warm_lead" <=> (~hot /\ score >= 60)
            /\ stage = "qualified" <=> score \in 40..59
            /\ stage = "nurture" <=> score \in 20..39
            /\ stage = "unqualified" <=> score < 20

\* a score that satisfies the hot_lead row and the warm_lead row, staged hot_lead
C16_Witness ==
    /\ scoring.pc = "staged"
    /\ scoring.ready_for_demo
    /\ scoring.score \in 70..100
    /\ scoring.stage = "hot_lead"

\* C17: the qualification_stage of every stored lead is one of the five stages
\* and is what determine_stage gives for the stored score of that lead.
C17_StoredStageFromScore ==
    \A l \in leads :
        /\ l.qualification_stage \in Stages
        /\ \E ready_for_demo \in BOOLEAN :
               l.qualification_stage =
                   determine_stage(l.qualification_score, ready_for_demo)

\* C18: a response 429 is not the status of a validation error (422) and
\* carries the leads_limit of the account.
C18_QuotaErrorCarriesLimit ==
    \A r \in Req :
        rq[r].response.code = 429 =>
            /\ rq[r].response.code # 422
            /\ rq[r].response.limit = customers[rq[r].customer.id].leads_limit

\* the step changes the status of the accounts mapped to the subscription to
\* the given one and changes nothing else in customers and leads
StatusOnly(subscription_id, status) ==
    /\ leads' = leads
    /\ \A a \in Acct :
          customers'[a] = IF a \in matched(customers, subscription_id)
                          THEN [customers[a] EXCEPT !.status = status]
                          ELSE customers[a]

\* C19: an invoice.payment_failed event sets the status of the account mapped
\* to its subscription to payment_failed, a customer.subscription.deleted
\* event sets it to cancelled; the step removes no lead and leaves the counter,
\* the limit and the credential of that account, and every other account, as
\* they were.
C19_StatusEventFrame ==
    [][\A s \in SubIds :
          /\ InvoicePaymentFailed(s) => StatusOnly(s, "payment_failed")
          /\ SubscriptionDeleted(s) => StatusOnly(s, "cancelled")]_vars

\* an account with stored leads and a counter above 0 whose status an event
\* has set to payment_failed or cancelled
C19_Witness ==
    \E a \in Acct :
        /\ customers[a].status \in {"payment_failed", "cancelled"}
        /\ customers[a].leads_used_this_month > 0
        /\ \E l \in leads : l.customer_id = a

\* C20: in the step that answers a request with 200, usage.used of the
\* response equals the leads_used_this_month of the account as persisted by
\* that step.
C20_ResponseUsedIsPersisted ==
    [][\A r \in Req :
          RespondStep(r) =>
              rq'[r].response.used =
                  customers'[rq[r].customer.id].leads_used_this_month]_vars

----------------------------------------------------------------------------
\* C21: every started delivery ends, and a delivery to n endpoints makes at
\* most retry_count * n POST attempts, an unanswered POST (ended by its
\* timeout) being one failed attempt.
Targets(j) == IF job[j].kind = "test" THEN 1 ELSE Len(job[j].webhooks)
AllPosts(j) ==
    Cardinality({<<k, i>> \in (DOMAIN job[j].calls) \X (1..retry_count + 1) :
                    /\ i <= Len(job[j].calls[k].log)
                    /\ job[j].calls[k].log[i] # "no_post"})
Attempts(j) ==
    Cardinality({<<k, i>> \in (DOMAIN job[j].calls) \X (1..retry_count + 1) :
                    i <= Len(job[j].calls[k].log)})
C21_DispatchTerminates ==
    /\ [](\A j \in Job : /\ Attempts(j) <= retry_count * Targets(j)
                         /\ AllPosts(j) <= retry_count * Targets(j))
    /\ \A j \in Job : (job[j].pc # "idle") ~> (job[j].pc \in {"done", "raised"})

\* a test delivery to the endpoint that never answers: three POSTs, each ended
\* by the timeout, and the delivery is over
C21_Witness ==
    \E j \in Job :
       /\ job[j].pc = "done"
       /\ Len(job[j].calls) = 1
       /\ job[j].calls[1].webhook_url = "u_down"
       /\ job[j].calls[1].log = <<"error", "error", "error">>
       /\ AllPosts(j) = retry_count

\* C22: after the k-th failed attempt, k = 1, 2, the dispatcher sleeps
\* 2^(k-1) seconds; it does not sleep after the last attempt nor after a
\* success.
Failed(c) == Cardinality({i \in DOMAIN c.log : c.log[i] # "200"})
C22_BackoffDelays ==
    \A j \in Job : \A k \in DOMAIN job[j].calls :
       LET c == job[j].calls[k] IN
          /\ Len(c.waits) = (IF Failed(c) < retry_count THEN Failed(c)
                                                        ELSE retry_count - 1)
          /\ \A i \in DOMAIN c.waits : c.waits[i] = 2 ^ (i - 1)
          /\ Len(c.waits) <= 2

C22_Witness ==
    \E j \in Job :
       /\ job[j].pc = "done"
       /\ Len(job[j].calls) = 1
       /\ Failed(job[j].calls[1]) = retry_count
       /\ job[j].calls[1].waits = <<1, 2>>
       /\ job[j].calls[1].result = "False"
\* C23: when the call to the language model raises, or its output cannot be
\* used, the caller of the scoring operation gets the fallback score 30 and no
\* error.
C23_ScoringFallback ==
    /\ scoring.pc # "raised"
    /\ (scoring.pc # "idle" /\ ~scoring.reply.numeric) => scoring.score = 30
\* C24: a registration is stored with the active flag given at creation, so
\* one created with active = false is stored inactive and is not among the
\* registrations a delivery reads.
C24_StoredAsGiven ==
    [][\A a \in Acct, u \in Urls, active \in BOOLEAN :
          (create_zapier_webhook(a, u, active) /\ zapier_webhooks' # zapier_webhooks)
             => LET row == zapier_webhooks'[Len(zapier_webhooks')]
                IN  /\ row.active = active
                    /\ (~active =>
                          \A w \in DOMAIN get_customer_webhooks(zapier_webhooks', a) :
                             get_customer_webhooks(zapier_webhooks', a)[w] # row)]_vars
\* C25: in every reachable state the usage counter of an account is at most
\* its leads_limit (no leads_limit changes here), whatever the interleaving of
\* create_lead requests and resets.
C25_UsedWithinLimit ==
    \A a \in Acct : customers[a].leads_used_this_month <= customers[a].leads_limit
\* C26: a payment-succeeded event leaves the status of every account as it
\* was, so the credential of an account marked payment_failed or cancelled is
\* still refused right after the event.
C26_PaymentSucceededKeepsStatus ==
    [][\A s \in SubIds :
          InvoicePaymentSucceeded(s) =>
             \A a \in Acct :
                /\ customers'[a].status = customers[a].status
                /\ customers[a].status \in {"payment_failed", "cancelled"}
                     => verify_api_key(customers', customers[a].api_key) = NoCustomer]_vars

\* an account that is not active, whose counter was written by a request and
\* has been reset since, and whose credential was refused
C26_Witness ==
    \E a \in Acct : \E r1, r2 \in Req :
        /\ customers[a].status \in {"payment_failed", "cancelled"}
        /\ rq[r1].customer.id = a
        /\ "counter" \in rq[r1].wrote
        /\ r1 \notin counted[a]
        /\ customers[a].leads_used_this_month = 0
        /\ rq[r2].api_key = customers[a].api_key
        /\ rq[r2].response.code = 401
----------------------------------------------------------------------------
\* C27: in any window of Window seconds at most calls_per_minute requests of
\* one IP are forwarded; a request over the limit gets the rate-limit error,
\* is not forwarded and is not added to the recorded times of its IP.
InWindow(times, t) ==
    Cardinality({i \in DOMAIN times : times[i] > t - Window /\ times[i] <= t})
C27_RateLimit ==
    /\ [](\A ip \in IPs : \A t \in 0..MaxTime :
             InWindow(forwarded[ip], t) <= calls_per_minute)
    /\ [][\A ip \in IPs :
             RateLimitDispatch(ip) =>
                /\ InWindow(forwarded[ip], now) >= calls_per_minute
                      => rate_response'.status_code = 429
                /\ rate_response'.status_code = 429
                      => /\ forwarded' = forwarded
                         /\ requests'[ip] = requests[ip]]_vars

\* an IP that was forwarded up to the limit, again after the window had
\* passed, and is now refused
C27_Witness ==
    \E ip \in IPs :
       /\ rate_response = [client_ip |-> ip, status_code |-> 429]
       /\ Len(forwarded[ip]) > calls_per_minute
       /\ InWindow(forwarded[ip], now) = calls_per_minute
----------------------------------------------------------------------------
\* C28: there is at most one account per contact email, and a checkout
\* success for an email that has an account updates that account in place
\* (plan, limit, new API key, status active): afterwards the new key
\* authenticates the account and its old key does not.
C28_OneAccountPerEmail ==
    /\ [](\A e \in Emails : Cardinality(existing_customer(customer_rows, e)) <= 1)
    /\ [][\A e \in Emails, p \in Plans :
             (HandleSuccessfulPayment(e, p) /\ existing_customer(customer_rows, e) # {})
                => \A i \in existing_customer(customer_rows, e) :
                      /\ existing_customer(customer_rows', e) = {i}
                      /\ customer_rows'[i].plan = p
                      /\ customer_rows'[i].leads_limit = plan_leads_limit(p)
                      /\ customer_rows'[i].status = "active"
                      /\ customer_rows'[i].api_key # customer_rows[i].api_key
                      /\ authenticates(customer_rows', customer_rows'[i].api_key) = {i}
                      /\ authenticates(customer_rows', customer_rows[i].api_key) = {}]_vars
----------------------------------------------------------------------------
\* C29: a listing returns only rows of the calling account, and it is the
\* listing the account would get if the other accounts held no lead and no
\* registration.
OwnLeads(a) == {l \in leads : l.customer_id = a}
OwnWebhooks(a) == SelectSeq(zapier_webhooks, LAMBDA w : w.customer_id = a)
C29_ListingIsolation ==
    [][/\ \A a \in Acct, skip \in {0, 1}, limit \in {1, 50} :
            GetLeads(a, skip, limit) =>
               /\ \A l \in listing'.rows : l.customer_id = a
               /\ listing'.rows \in pages(get_leads(OwnLeads(a), a), skip, limit)
       /\ \A a \in Acct :
            get_zapier_webhooks(a) =>
               /\ \A w \in listing'.rows : w.customer_id = a
               /\ listing'.rows = rows_of(get_customer_webhooks(OwnWebhooks(a), a))]_vars

\* a listing of an account that returned rows while another account holds
\* rows of the same table
C29_Witness ==
    \/ /\ listing.kind = "leads"
       /\ listing.rows # {}
       /\ \E l \in leads : l.customer_id # listing.customer_id
    \/ /\ listing.kind = "webhooks"
       /\ listing.rows # {}
       /\ \E i \in DOMAIN zapier_webhooks :
             zapier_webhooks[i].customer_id # listing.customer_id
----------------------------------------------------------------------------
\* C30: the number of active members of a corporate account never exceeds
\* max_users, and an add_team_member call that raised the capacity error
\* inserted no member.
C30_MembersWithinCapacity ==
    /\ get_member_count(corporate_members) <= max_users
    /\ \A c \in Invite :
          invite[c].pc = "raised" => \A m \in corporate_members : m.id # c
====
